---- MODULE Spec2Model ----
(***************************************************************************)
(* Model of the TSE downloader (rede_cria_tabelas/dados_tse_baixa.py):     *)
(* the existing-file policy (handle_existing_file), the resumable          *)
(* download (download_file) and the retry loop of main.                    *)
(*                                                                         *)
(* File contents are abstracted to their length, counted in chunks.  The   *)
(* remote resource has RemoteSize chunks.  A file on disk is a length, or  *)
(* Absent.  The HTTP server is one of three kinds: it honours byte ranges, *)
(* it ignores the Range header (200 and the full body), or it rejects      *)
(* every ranged request with 416.                                          *)
(***************************************************************************)
EXTENDS Integers, Sequences, FiniteSets, TLC

\* ------------------------------------------------------------------ bounds
NumYears == 2          \* selected_years: pages visited by one run
MaxTotal == 2          \* resources discovered in one run, all pages together
RemoteSize == 2        \* length of every remote resource, in chunks
MaxInvalid == 1        \* invalid answers typed at one prompt
MaxCalls == 3          \* successive download_file calls of the driver
NumDates == 2          \* dates processed by one run of the DOE scraper
MaxLinks == 2          \* links found for one date
MaxCells == 2          \* cells in the table row of a link
MaxAnchors == 1        \* anchors of a resource item beside "Ir para recurso"

\* ------------------------------------------------------- program constants
max_retries == 3

Absent == 0 - 1        \* os.path.exists(path) is False
NoRange == 0 - 1       \* request without a Range header

Sizes == Absent..(RemoteSize + 1)
Kinds == {"honours", "ignores", "rejects"}

VARIABLES
    pc,                   \* position of main / of the driver
    year_idx,             \* enumerate(selected_years, 1)
    res_idx,              \* enumerate(resources, 1)
    resources,            \* len(resources) of the current page
    disk,                 \* length of the file at output_path, or Absent
    transport,            \* driver: kind of the server; "any" in a run of main,
                          \* where every request may reach a server of any kind
    global_skip_all,
    global_overwrite_all,
    action,               \* last action returned by handle_existing_file
    asked,                \* the last handle_existing_file call reached input()
    choice,               \* what input() returned last in that call
    invalid,              \* invalid answers given at the current prompt
    attempt,              \* loop variable of the retry loop
    waits,                \* time.sleep arguments of the current resource
    results,              \* success flags of the attempts of the current resource
    last,                 \* what the last download_file call did
    error_msg,
    outcome,              \* outcome of the resource processed last
    total_downloaded,
    total_skipped,
    total_failed,
    failed_downloads,
    history,              \* driver: file length after each download_file call
    discovered,           \* resources returned by get_resources_from_year so far
    fetch_ok              \* FALSE when the last get_resources_from_year call failed

\* State of the DOE scraper (rede_cria_tabelas/doe/diarios_ceara_scraper.py):
\* main's loop over the dates and one download_file call at a time.
VARIABLES
    doe_pc,               \* position of the scraper's main / download_file
    date_idx,             \* dates processed so far, the current one included
    shortcut_worked,      \* success flag of extract_pdf_links_shortcut
    page,                 \* what test_shortcut_url saw for the current date
    selenium_calls,       \* extract_pdf_links_selenium calls for the current date
    links,                \* len(links) of the current date
    link_idx,             \* links of the current date handed to download_file
    file,                 \* the file at filepath during the current call
    doe_attempt,          \* loop variable of download_file's retry loop
    gets,                 \* requests.get calls of the current call
    doe_waits,            \* time.sleep arguments of the current call
    prompts,              \* should_overwrite_file prompts of the current call
    doe_invalid,          \* invalid answers given at the current prompt
    doe_status,           \* status returned by the last download_file call
    doe_downloaded,       \* main's total_downloaded
    doe_skipped,          \* main's total_skipped
    doe_failed            \* main's total_failed

\* Filename resolution of the DOE scraper for one link of a listing page.
VARIABLES
    res_pc,               \* "link" before the link is resolved, "resolved" after
    link,                 \* the link: its URL, the texts of the cells of its
                          \* row, the Content-Disposition answer, its own text
    probed,               \* get_filename_from_content_disposition was called
    filename,             \* the name test_shortcut_url puts in links
    safe_filename         \* the name main gives the file

\* Link extraction of the TSE downloader (get_resources_from_year) for one
\* resource item of a year page.
VARIABLES
    ext_pc,               \* "item" before the item is processed, "extracted" after
    res_item,             \* the item: the href of its "Ir para recurso" anchor,
                          \* the hrefs of its other anchors, and what the
                          \* resource page answers if it is fetched
    fetched,              \* the resource page was requested
    extracted             \* the records appended to resources for the item

tseVars == <<pc, year_idx, res_idx, resources, disk, transport, global_skip_all,
             global_overwrite_all, action, asked, choice, invalid, attempt,
             waits, results, last, error_msg, outcome, total_downloaded, total_skipped,
             total_failed, failed_downloads, history, discovered, fetch_ok>>

doeVars == <<doe_pc, date_idx, shortcut_worked, page, selenium_calls, links,
             link_idx, file, doe_attempt, gets, doe_waits, prompts,
             doe_invalid, doe_status, doe_downloaded, doe_skipped, doe_failed>>

resVars == <<res_pc, link, probed, filename, safe_filename>>

extVars == <<ext_pc, res_item, fetched, extracted>>

vars == <<tseVars, doeVars, resVars, extVars>>

\* Everything but the TSE downloader, which a run of it leaves alone.
notTse == <<doeVars, resVars, extVars>>

\* Everything but the download loop of the DOE scraper.
notDoe == <<tseVars, resVars, extVars>>

\* Everything but the filename resolution.
notRes == <<tseVars, doeVars, extVars>>

\* Everything but the link extraction.
notExt == <<tseVars, doeVars, resVars>>

\* ------------------------------------------------------------- HTTP server
\* Answer of a server of the given kind to a GET with the given range offset.
Respond(kind, range) ==
    IF range = NoRange
    THEN [status |-> 200, len |-> RemoteSize]
    ELSE CASE kind = "honours" ->
                  IF range < RemoteSize
                  THEN [status |-> 206, len |-> RemoteSize - range]
                  ELSE [status |-> 416, len |-> 0]
           [] kind = "ignores" -> [status |-> 200, len |-> RemoteSize]
           [] kind = "rejects" -> [status |-> 416, len |-> 0]

\* What can go wrong in one download_file call: nothing, an exception raised
\* by the req-th requests.get, an error status of the req-th response, or an
\* exception raised by iter_content after n chunks were written.
NoFault == [type |-> "none", req |-> 0, n |-> 0]
Faults ==
    {NoFault}
    \cup {[type |-> t, req |-> r, n |-> 0] :
              t \in {"ConnectionError", "HTTPError"}, r \in 1..2}
    \cup {[type |-> "ChunkedEncodingError", req |-> 0, n |-> b] :
              b \in 0..(RemoteSize - 1)}

Get(kind, range, fault, req) ==
    IF fault.type = "HTTPError" /\ fault.req = req
    THEN [status |-> 503, len |-> 0]
    ELSE Respond(kind, range)

Raises(fault, req) == fault.type = "ConnectionError" /\ fault.req = req

\* ----------------------------------------------------------- download_file
\* resume_header: the offset of the Range header, NoRange for {}
ResumeHeader(size) == IF size # Absent THEN size ELSE NoRange

\* Variant: the 416 branch forgets to clear resume_header.
ResumeAfter416_Kept(resume_header, status) == resume_header

\* resume_header after the 416 check
ResumeAfter416(resume_header, status) ==
    IF status = 416 THEN NoRange ELSE resume_header

\* Variant: the file is always opened for writing.
Mode_AlwaysTruncate(resume_header, size) == "wb"

Mode(resume_header, size) ==
    IF resume_header # NoRange /\ size # Absent THEN "ab" ELSE "wb"

\* length of the file once open(output_path, mode) has returned
Opened(mode, size) == IF mode = "ab" THEN size ELSE 0

\* Variant: the except branch removes the partial file.
FailureSize_Removed(size) == Absent

\* length of the file when the call returns after an exception
FailureSize(size) == size

DownloadFile(size, kind, fault) ==
    LET h1 == ResumeHeader(size)
        failed(msg, reqs, sz, wr, md) ==
            [success |-> FALSE, error |-> msg, size |-> FailureSize(sz),
             requests |-> reqs, written |-> wr, mode |-> md]
    IN  IF Raises(fault, 1)
        THEN failed(fault.type, <<h1>>, size, 0, "none")
        ELSE
        LET r1 == Get(kind, h1, fault, 1)
            second == r1.status = 416
            h2 == ResumeAfter416(h1, r1.status)
            reqs == IF second THEN <<h1, NoRange>> ELSE <<h1>>
        IN  IF second /\ Raises(fault, 2)
            THEN failed(fault.type, reqs, size, 0, "none")
            ELSE
            LET r == IF second THEN Get(kind, NoRange, fault, 2) ELSE r1
            IN  IF r.status >= 400
                THEN failed("HTTPError", reqs, size, 0, "none")
                ELSE
                LET mode == Mode(h2, size)
                    base == Opened(mode, size)
                IN  IF fault.type = "ChunkedEncodingError" /\ fault.n < r.len
                    THEN failed(fault.type, reqs, base + fault.n, fault.n, mode)
                    ELSE [success |-> TRUE, error |-> "None",
                          size |-> base + r.len, requests |-> reqs,
                          written |-> r.len, mode |-> mode]

NoCall == [success |-> FALSE, error |-> "None", size |-> Absent,
           requests |-> <<>>, written |-> 0, mode |-> "none",
           before |-> Absent, fault |-> "none"]

\* ---------------------------------------------------- handle_existing_file
\* Variants of Decide with one check misplaced or missing.
Decide_SkipAllFirst(exists, skip_all, overwrite_all) ==
    IF skip_all THEN "skip"
    ELSE IF ~exists THEN "overwrite"
    ELSE IF overwrite_all THEN "overwrite"
    ELSE "prompt"

Decide_NoOverwriteAll(exists, skip_all, overwrite_all) ==
    IF ~exists THEN "overwrite"
    ELSE IF skip_all THEN "skip"
    ELSE "prompt"

Decide_NoSkipAll(exists, skip_all, overwrite_all) ==
    IF ~exists THEN "overwrite"
    ELSE IF overwrite_all THEN "overwrite"
    ELSE "prompt"

\* The part before the prompt: the action returned, or "prompt".
Decide(exists, skip_all, overwrite_all) ==
    IF ~exists THEN "overwrite"
    ELSE IF skip_all THEN "skip"
    ELSE IF overwrite_all THEN "overwrite"
    ELSE "prompt"

Choices == {"s", "o", "sa", "oa"}

\* Variants of Answer with one wrong flag.
Answer_BothFlags(c) ==
    CASE c = "s"  -> [action |-> "skip",      skip |-> FALSE, over |-> FALSE]
      [] c = "o"  -> [action |-> "overwrite", skip |-> FALSE, over |-> FALSE]
      [] c = "sa" -> [action |-> "skip",      skip |-> TRUE,  over |-> FALSE]
      [] c = "oa" -> [action |-> "overwrite", skip |-> TRUE,  over |-> TRUE]

Answer_SkipOnceSticks(c) ==
    CASE c = "s"  -> [action |-> "skip",      skip |-> TRUE,  over |-> FALSE]
      [] c = "o"  -> [action |-> "overwrite", skip |-> FALSE, over |-> FALSE]
      [] c = "sa" -> [action |-> "skip",      skip |-> TRUE,  over |-> FALSE]
      [] c = "oa" -> [action |-> "overwrite", skip |-> FALSE, over |-> TRUE]

\* The return value for a valid answer.
Answer(c) ==
    CASE c = "s"  -> [action |-> "skip",      skip |-> FALSE, over |-> FALSE]
      [] c = "o"  -> [action |-> "overwrite", skip |-> FALSE, over |-> FALSE]
      [] c = "sa" -> [action |-> "skip",      skip |-> TRUE,  over |-> FALSE]
      [] c = "oa" -> [action |-> "overwrite", skip |-> FALSE, over |-> TRUE]

\* -------------------------------------------------------------------- main
\* Variant: the wait grows linearly.
Backoff_Linear(n) == 2 * n

\* time.sleep(2 ** attempt)
Backoff(n) == 2 ^ n

Exists(size) == size # Absent

\* Variant: the end of a resource ends the resource loop of its page.
NextResource_Breaks(idx) ==
    /\ pc' = "year"
    /\ UNCHANGED <<year_idx, resources>>

\* The resource loop moves to the next resource, or the year loop to the
\* next year; idx resources of the page have been processed.
NextResource(idx) ==
    /\ pc' = IF idx < resources THEN "resource" ELSE "year"
    /\ UNCHANGED <<year_idx, resources>>

\* Variant: the continue is missing and the skipped resource is downloaded.
Skip_FallsThrough(idx) ==
    /\ total_skipped' = total_skipped + 1
    /\ outcome' = "skipped"
    /\ pc' = "download"
    /\ attempt' = 1
    /\ UNCHANGED <<year_idx, resources>>

\* Variant: a skipped resource is not counted.
Skip_NotCounted(idx) ==
    /\ total_skipped' = total_skipped
    /\ outcome' = "skipped"
    /\ NextResource(idx)
    /\ UNCHANGED attempt

\* action == 'skip' in main
Skip(idx) ==
    /\ total_skipped' = total_skipped + 1
    /\ outcome' = "skipped"
    /\ NextResource(idx)
    /\ UNCHANGED attempt

\* action == 'overwrite' in main: entry of the retry loop
EnterRetryLoop ==
    /\ pc' = "download"
    /\ attempt' = 1
    /\ outcome' = "none"
    /\ UNCHANGED <<year_idx, resources, total_skipped>>

\* resources processed so far
Processed == total_downloaded + total_skipped + total_failed

\* for year_idx, (year, year_url) in enumerate(selected_years, 1):
\* get_resources_from_year returns n resources (0 when the fetch failed)
NextYear ==
    /\ pc = "year"
    /\ year_idx < NumYears
    /\ year_idx' = year_idx + 1
    /\ res_idx' = 0
    /\ \E n \in 0..(MaxTotal - Processed), ok \in BOOLEAN :
          /\ ~ok => n = 0
          /\ resources' = n
          /\ discovered' = discovered + n
          /\ fetch_ok' = ok
          /\ pc' = IF n = 0 THEN "year" ELSE "resource"
    /\ UNCHANGED <<disk, transport, global_skip_all, global_overwrite_all,
                   action, asked, choice, invalid, attempt, waits, results,
                   last, error_msg, outcome, total_downloaded, total_skipped,
                   total_failed, failed_downloads, history>>
    /\ UNCHANGED notTse

Finish ==
    /\ pc = "year"
    /\ year_idx = NumYears
    /\ pc' = "done"
    /\ UNCHANGED <<year_idx, res_idx, resources, disk, transport,
                   global_skip_all, global_overwrite_all, action, asked,
                   choice, invalid, attempt, waits, results, last, error_msg,
                   outcome, total_downloaded, total_skipped, total_failed,
                   failed_downloads, history>>
    /\ UNCHANGED <<discovered, fetch_ok>>
    /\ UNCHANGED notTse

\* The next resource of the page: output_path is built and
\* handle_existing_file runs up to its return or up to input().  The file at
\* output_path has any length, or is absent.
HandleExistingFile ==
    /\ pc = "resource"
    /\ res_idx' = res_idx + 1
    /\ waits' = <<>>
    /\ results' = <<>>
    /\ last' = NoCall
    /\ choice' = "none"
    /\ \E size \in Sizes :
          /\ disk' = size
          /\ asked' = (Decide(Exists(size), global_skip_all,
                              global_overwrite_all) = "prompt")
          /\ LET d == Decide(Exists(size), global_skip_all, global_overwrite_all)
             IN  CASE d = "prompt" ->
                          /\ pc' = "input"
                          /\ outcome' = "none"
                          /\ UNCHANGED <<action, year_idx, resources, attempt,
                                         total_skipped>>
                   [] d = "skip" ->
                          /\ action' = "skip"
                          /\ Skip(res_idx + 1)
                   [] d = "overwrite" ->
                          /\ action' = "overwrite"
                          /\ EnterRetryLoop
    /\ UNCHANGED <<transport, global_skip_all, global_overwrite_all, invalid,
                   error_msg, total_downloaded, total_failed,
                   failed_downloads, history>>
    /\ UNCHANGED <<discovered, fetch_ok>>
    /\ UNCHANGED notTse

\* input() returns a valid answer: handle_existing_file returns.
Input ==
    /\ pc = "input"
    /\ invalid' = 0
    /\ \E c \in Choices :
          LET a == Answer(c)
          IN  /\ choice' = c
              /\ action' = a.action
              /\ global_skip_all' = a.skip
              /\ global_overwrite_all' = a.over
              /\ IF a.action = "skip" THEN Skip(res_idx) ELSE EnterRetryLoop
    /\ UNCHANGED <<res_idx, disk, transport, asked, waits, results, last,
                   error_msg, total_downloaded, total_failed,
                   failed_downloads, history>>
    /\ UNCHANGED <<discovered, fetch_ok>>
    /\ UNCHANGED notTse

\* input() returns anything else: the while loop prompts again.
InvalidInput ==
    /\ pc = "input"
    /\ invalid < MaxInvalid
    /\ invalid' = invalid + 1
    /\ choice' = "other"
    /\ UNCHANGED <<pc, year_idx, res_idx, resources, disk, transport,
                   global_skip_all, global_overwrite_all, action, asked, attempt,
                   waits, results, last, error_msg, outcome, total_downloaded,
                   total_skipped, total_failed, failed_downloads, history>>
    /\ UNCHANGED <<discovered, fetch_ok>>
    /\ UNCHANGED notTse

\* Variants: the retry loop stops one attempt early, or one attempt late.
CanRetry_OneLess(n) == n < max_retries - 1
CanRetry_OneMore(n) == n <= max_retries

\* for attempt in range(1, max_retries + 1): another attempt follows attempt n
CanRetry(n) == n < max_retries

\* Variant: the record carries no error.
FailureRecord_NoError(year, name, err) ==
    [year |-> year, filename |-> name, error |-> "None"]

\* the entry appended to failed_downloads
FailureRecord(year, name, err) ==
    [year |-> year, filename |-> name, error |-> err]

\* What a download_file call did, with the length of the file before it and
\* what went wrong on the way.
Call(d, before, fault) ==
    [success |-> d.success, error |-> d.error, size |-> d.size,
     requests |-> d.requests, written |-> d.written, mode |-> d.mode,
     before |-> before, fault |-> fault.type]

\* One iteration of the retry loop.
Attempt ==
    /\ pc = "download"
    /\ \E kind \in Kinds, fault \in Faults :
          LET d == DownloadFile(disk, kind, fault)
          IN  /\ waits' = IF attempt > 1
                          THEN Append(waits, Backoff(attempt)) ELSE waits
              /\ disk' = d.size
              /\ last' = Call(d, disk, fault)
              /\ results' = Append(results, d.success)
              /\ error_msg' = d.error
              /\ IF d.success
                 THEN /\ total_downloaded' = total_downloaded + 1
                      /\ outcome' = "downloaded"
                      /\ NextResource(res_idx)
                      /\ UNCHANGED <<attempt, total_failed, failed_downloads>>
                 ELSE IF CanRetry(attempt)
                 THEN /\ attempt' = attempt + 1
                      /\ UNCHANGED <<pc, year_idx, resources, outcome,
                                     total_downloaded, total_failed,
                                     failed_downloads>>
                 ELSE /\ total_failed' = total_failed + 1
                      /\ failed_downloads' =
                             Append(failed_downloads,
                                    FailureRecord(year_idx, res_idx, d.error))
                      /\ outcome' = "failed"
                      /\ NextResource(res_idx)
                      /\ UNCHANGED <<attempt, total_downloaded>>
    /\ UNCHANGED <<res_idx, transport, global_skip_all, global_overwrite_all,
                   action, asked, choice, invalid, total_skipped, history>>
    /\ UNCHANGED <<discovered, fetch_ok>>
    /\ UNCHANGED notTse

\* ------------------------------------------------------ TSE link extraction
\* An href is where it starts (the CDN host, another host, "/", or a relative
\* path), which of the words 'dataset' and 'download' it holds, how it ends
\* (an extension of the allow-list, the same followed by a dot, or neither)
\* and whether its path has a last segment.
Origins == {"cdn", "http", "root", "rel"}
Hrefs ==
    {h \in [origin : Origins, word : {"none", "dataset", "download"},
            ext : {"zip", "zip.", "none"}, base : BOOLEAN] :
        h.ext # "none" => h.base}
None == [origin |-> "none", word |-> "none", ext |-> "none", base |-> FALSE]

\* href.startswith('http'), href.startswith('/')
StartsWithHttp(h) == h.origin \in {"cdn", "http"}
StartsWithSlash(h) == h.origin = "root"

\* url.endswith(('.zip', '.csv', '.pdf', '.txt', '.xlsx', '.xls', ...))
EndsWithExt(h) == h.ext = "zip"

\* urljoin(BASE_URL, url): a relative reference becomes a URL of the portal
urljoin(h) ==
    IF StartsWithHttp(h) THEN h ELSE [h EXCEPT !.origin = "http"]

\* url.rstrip('. \n\r\t')
rstrip(h) == [h EXCEPT !.ext = IF @ = "zip." THEN "zip" ELSE @]

\* The anchor the record is built from: "Ir para recurso", else the first
\* anchor with an absolute href that holds 'cdn.tse.jus.br' or 'download'.
LooksLikeDownload(h) ==
    StartsWithHttp(h) /\ (h.origin = "cdn" \/ h.word = "download")

ir_recurso_link(item) ==
    IF item.ir # None THEN item.ir
    ELSE IF \E i \in 1..Len(item.anchors) : LooksLikeDownload(item.anchors[i])
      THEN item.anchors[CHOOSE i \in 1..Len(item.anchors) :
                            /\ LooksLikeDownload(item.anchors[i])
                            /\ \A j \in 1..(i - 1) :
                                   ~LooksLikeDownload(item.anchors[j])]
    ELSE None

\* The resource page is fetched for a URL that does not end in an extension
\* and starts with '/' or holds 'dataset'.
Follows(h) ==
    /\ h # None
    /\ ~EndsWithExt(h)
    /\ (StartsWithSlash(h) \/ h.word = "dataset")

\* What the anchor search on the resource page accepts
DirectDownload(h) == EndsWithExt(h) \/ h.word = "download" \/ h.origin = "cdn"

\* What the fetch of the resource page gives: an exception, no matching
\* anchor, or the href of the first matching anchor.
Answers ==
    {[page |-> "failed", href |-> None], [page |-> "nolink", href |-> None]}
    \cup {[page |-> "link", href |-> h] : h \in {g \in Hrefs : DirectDownload(g)}}

\* download_url after the follow step
Followed(h, answer) ==
    IF Follows(h) /\ answer.page = "link"
      THEN IF StartsWithSlash(answer.href) THEN urljoin(answer.href)
           ELSE answer.href
      ELSE h

\* file_format, from the end of the path
Format(h) == IF h.ext = "zip" THEN "ZIP" ELSE "unknown"

\* os.path.basename of the path, or the title and the format when the path
\* has no last segment
FileName(h) ==
    IF h.base THEN [stem |-> "basename", ext |-> h.ext]
    ELSE [stem |-> "title", ext |-> "unknown"]

\* The records the loop body appends for the item: none when no anchor was
\* chosen.
Records(item) ==
    LET chosen == ir_recurso_link(item)
        download_url == rstrip(Followed(chosen, item.answer))
    IN  IF chosen = None THEN <<>>
        ELSE <<[name |-> FileName(download_url),
                url |-> download_url,
                format |-> Format(download_url)]>>

Items ==
    [ir : Hrefs \cup {None},
     anchors : UNION {[1..n -> Hrefs] : n \in 0..MaxAnchors},
     answer : Answers]

NoItem ==
    [ir |-> None, anchors |-> <<>>, answer |-> [page |-> "nolink", href |-> None]]

\* No item is being processed.
ExtIdle ==
    /\ ext_pc = "idle"
    /\ res_item = NoItem
    /\ fetched = FALSE
    /\ extracted = <<>>

\* An item of the page that holds at least one anchor.
InitExtract ==
    /\ ext_pc = "item"
    /\ res_item \in {i \in Items : i.ir # None \/ i.anchors # <<>>}
    /\ fetched = FALSE
    /\ extracted = <<>>

\* The body of the loop over resource_items
Extract ==
    /\ ext_pc = "item"
    /\ ext_pc' = "extracted"
    /\ fetched' = Follows(ir_recurso_link(res_item))
    /\ extracted' = Records(res_item)
    /\ UNCHANGED res_item
    /\ UNCHANGED notExt

NextExtract == Extract

\* ------------------------------------------------------- DOE file names
\* A text is its stem and whether it ends in ".pdf"; letter case is left
\* out.  Nothing is the empty string, and None: both are false in Python.
Name(s, p) == [stem |-> s, pdf |-> p]
Nothing == Name("", FALSE)
Truthy(n) == n # Nothing

\* len() of the stems in use
StemLen(s) ==
    CASE s = "" -> 0
      [] s = "do" -> 2
      [] s = "ver" -> 3
      [] s = "***" -> 3
      [] s = "do ce" -> 5
      [] s = "baixar" -> 6
      [] s = "edital" -> 6
      [] s = "do20ce" -> 6
      [] s = "do%20ce" -> 7
      [] s = "download" -> 8
      [] s = "documento" -> 9
      [] s = "visualizar" -> 10

Length(n) == StemLen(n.stem) + (IF n.pdf THEN 4 ELSE 0)

\* urllib.parse.unquote: %20 becomes a space
Unquote(n) == [n EXCEPT !.stem = IF @ = "do%20ce" THEN "do ce" ELSE @]

\* "".join(c for c in filename if c.isalnum() or c in "._- ")
Clean(n) ==
    [n EXCEPT !.stem = CASE @ = "***" -> ""
                         [] @ = "do%20ce" -> "do20ce"
                         [] OTHER -> @]

\* if not filename.endswith('.pdf'): filename += '.pdf'
EnsurePdf(n) == [n EXCEPT !.pdf = TRUE]

\* cell_text.lower() in ['visualizar', 'baixar', 'download', 'ver']
IsActionWord(t) == ~t.pdf /\ t.stem \in {"visualizar", "baixar", "download", "ver"}

\* not filename or filename.lower() in
\* ['visualizar.pdf', 'visualizar', 'baixar.pdf', 'download.pdf']
Unusable(n) ==
    \/ ~Truthy(n)
    \/ n \in {Name("visualizar", TRUE), Name("visualizar", FALSE),
              Name("baixar", TRUE), Name("download", TRUE)}

\* The href filter of test_shortcut_url: '.pdf', 'download' or 'baixar' in
\* href.  url.dl says that 'download' stands somewhere before the last
\* segment of the path.
PassesFilter(url) ==
    \/ url.param.pdf
    \/ url.base.pdf
    \/ url.base.stem \in {"download", "baixar"}
    \/ url.dl

\* The value of the first recognised query parameter when it ends in .pdf,
\* else the segment of the path that holds ".pdf" (here the last one, if
\* any), else None.
extract_filename_from_url(url) ==
    IF Truthy(url.param) /\ url.param.pdf THEN Unquote(url.param)
    ELSE IF url.base.pdf THEN Unquote(url.base)
    ELSE Nothing

\* cell_text and not an action word and (ends in .pdf or len(cell_text) > 5)
UsableCell(t) == Truthy(t) /\ ~IsActionWord(t) /\ (t.pdf \/ Length(t) > 5)

\* Method 2: the text of the first usable cell of the row, with .pdf
Method2(f, cells) ==
    IF Unusable(f) /\ \E i \in 1..Len(cells) : UsableCell(cells[i])
      THEN LET i == CHOOSE i \in 1..Len(cells) :
                      /\ UsableCell(cells[i])
                      /\ \A j \in 1..(i - 1) : ~UsableCell(cells[j])
           IN  EnsurePdf(cells[i])
      ELSE f

\* Method 3: the name of the Content-Disposition header of a HEAD request
Method3(f, cd) == IF Unusable(f) THEN Unquote(cd) ELSE f

\* Method 4: the text of the link unless it is an action word, else the
\* basename of the path, else 'documento.pdf'
Method4(f, url, link_text) ==
    IF Unusable(f)
      THEN IF Truthy(link_text) /\ ~IsActionWord(link_text) THEN link_text
           ELSE IF Truthy(url.base) THEN url.base
           ELSE Name("documento", TRUE)
      ELSE f

\* The name test_shortcut_url appends to links for the link l.
ShortcutName(l) ==
    LET f1 == extract_filename_from_url(l.url)
        f2 == Method2(f1, l.cells)
        f3 == Method3(f2, l.cd)
        f4 == Method4(f3, l.url, l.link_text)
    IN  Unquote(EnsurePdf(f4))

\* The HEAD request is sent when methods 1 and 2 gave no usable name.
Probes(l) == Unusable(Method2(extract_filename_from_url(l.url), l.cells))

\* safe_filename of main
Sanitise(n) == EnsurePdf(Clean(n))

Params == {Nothing, Name("visualizar", TRUE), Name("edital", TRUE), Name("edital", FALSE)}
Bases ==
    {Nothing, Name("download", FALSE), Name("baixar", TRUE), Name("ver", TRUE),
     Name("edital", TRUE), Name("visualizar", FALSE)}
Urls == {u \in [param : Params, base : Bases, dl : BOOLEAN] : PassesFilter(u)}
CellTexts ==
    {Nothing, Name("baixar", FALSE), Name("ver", TRUE), Name("edital", FALSE),
     Name("do", FALSE)}
Rows == UNION {[1..n -> CellTexts] : n \in 1..MaxCells}
Dispositions ==
    {Nothing, Name("ver", TRUE), Name("download", FALSE), Name("do%20ce", TRUE),
     Name("***", FALSE)}
LinkTexts ==
    {Nothing, Name("baixar", FALSE), Name("ver", FALSE), Name("edital", FALSE),
     Name("***", FALSE)}
Links ==
    [url : Urls, cells : Rows, cd : Dispositions, link_text : LinkTexts]

NoLink ==
    [url |-> [param |-> Nothing, base |-> Nothing, dl |-> FALSE],
     cells |-> <<>>, cd |-> Nothing, link_text |-> Nothing]

\* No link is being resolved.
ResIdle ==
    /\ res_pc = "idle"
    /\ link = NoLink
    /\ probed = FALSE
    /\ filename = Nothing
    /\ safe_filename = Nothing

\* A link of the table passed the href filter.
InitResolve ==
    /\ res_pc = "link"
    /\ link \in Links
    /\ probed = FALSE
    /\ filename = Nothing
    /\ safe_filename = Nothing

\* test_shortcut_url resolves the name of the link and main sanitises it.
Resolve ==
    /\ res_pc = "link"
    /\ res_pc' = "resolved"
    /\ probed' = Probes(link)
    /\ filename' = ShortcutName(link)
    /\ safe_filename' = Sanitise(ShortcutName(link))
    /\ UNCHANGED link
    /\ UNCHANGED notRes

\* The DOE scraper is not running.
DoeIdle ==
    /\ doe_pc = "idle"
    /\ date_idx = 0
    /\ shortcut_worked = FALSE
    /\ page = "none"
    /\ selenium_calls = 0
    /\ links = 0
    /\ link_idx = 0
    /\ file = "unknown"
    /\ doe_attempt = 0
    /\ gets = 0
    /\ doe_waits = <<>>
    /\ prompts = 0
    /\ doe_invalid = 0
    /\ doe_status = "none"
    /\ doe_downloaded = 0
    /\ doe_skipped = 0
    /\ doe_failed = 0

Init ==
    /\ ExtIdle
    /\ DoeIdle
    /\ ResIdle
    /\ pc = "year"
    /\ year_idx = 0
    /\ res_idx = 0
    /\ resources = 0
    /\ disk = Absent
    /\ transport = "any"
    /\ global_skip_all = FALSE
    /\ global_overwrite_all = FALSE
    /\ action = "none"
    /\ asked = FALSE
    /\ choice = "none"
    /\ invalid = 0
    /\ attempt = 0
    /\ waits = <<>>
    /\ results = <<>>
    /\ last = NoCall
    /\ error_msg = "None"
    /\ outcome = "none"
    /\ total_downloaded = 0
    /\ total_skipped = 0
    /\ total_failed = 0
    /\ failed_downloads = <<>>
    /\ history = <<>>
    /\ discovered = 0
    /\ fetch_ok = TRUE

Next ==
    \/ NextYear
    \/ Finish
    \/ HandleExistingFile
    \/ Input
    \/ InvalidInput
    \/ Attempt

Spec == Init /\ [][Next]_vars

\* The steps main takes when its call returns: the fetch of a page, the
\* existence check, a valid answer at the prompt, a download attempt, the
\* summary.
Progress ==
    \/ NextYear
    \/ Finish
    \/ HandleExistingFile
    \/ Input
    \/ Attempt

\* Every network call returns and every prompt is answered in the end: main,
\* a single thread, does not stay forever before a step it can take.
SpecLive == Spec /\ WF_vars(Progress)

\* ------------------------------------------------------------------ driver
\* download_file called MaxCalls times in succession on one output_path, each
\* call under an 'overwrite' decision of handle_existing_file.
InitDriver ==
    /\ ExtIdle
    /\ DoeIdle
    /\ ResIdle
    /\ pc = "driver"
    /\ year_idx = 1
    /\ res_idx = 1
    /\ resources = 1
    /\ disk \in Sizes
    /\ transport \in Kinds
    /\ global_skip_all = FALSE
    /\ global_overwrite_all = TRUE
    /\ action = "none"
    /\ asked = FALSE
    /\ choice = "none"
    /\ invalid = 0
    /\ attempt = 0
    /\ waits = <<>>
    /\ results = <<>>
    /\ last = NoCall
    /\ error_msg = "None"
    /\ outcome = "none"
    /\ total_downloaded = 0
    /\ total_skipped = 0
    /\ total_failed = 0
    /\ failed_downloads = <<>>
    /\ history = <<>>
    /\ discovered = 0
    /\ fetch_ok = TRUE

DriverCall ==
    /\ pc = "driver"
    /\ Len(history) < MaxCalls
    /\ Decide(Exists(disk), global_skip_all, global_overwrite_all) = "overwrite"
    /\ action' = "overwrite"
    /\ \E fault \in Faults :
          LET d == DownloadFile(disk, transport, fault)
          IN  /\ disk' = d.size
              /\ last' = Call(d, disk, fault)
              /\ error_msg' = d.error
              /\ history' = Append(history, Call(d, disk, fault))
    /\ UNCHANGED <<pc, year_idx, res_idx, resources, transport,
                   global_skip_all, global_overwrite_all, asked, choice,
                   invalid, attempt, waits, results, outcome,
                   total_downloaded, total_skipped,
                   total_failed, failed_downloads>>
    /\ UNCHANGED <<discovered, fetch_ok>>
    /\ UNCHANGED notTse

NextDriver == DriverCall

SpecDownload == InitDriver /\ [][NextDriver]_vars

\* ------------------------------------------------------------ DOE scraper
\* What test_shortcut_url can see: the request or the parsing failed; the
\* page loaded with links; it loaded without any; it loaded with a phrase
\* saying that there are no publications.
Pages == {"failed", "links", "empty", "marker"}

\* Variant: the fallback is tried for every date.
NeedsSelenium_Always(worked) == TRUE

\* if not shortcut_worked:
NeedsSelenium(worked) == ~worked

\* if not links: continue; otherwise the loop over the links starts
AfterDiscovery(n) ==
    /\ links' = n
    /\ link_idx' = 0
    /\ doe_pc' = IF n = 0 THEN "date" ELSE "link"

\* for date_str in dates: links, shortcut_worked =
\* extract_pdf_links_shortcut(date_str).  Only a page that loaded, with links
\* and without the phrase, gives links.
DoeShortcut ==
    /\ doe_pc = "date"
    /\ date_idx < NumDates
    /\ date_idx' = date_idx + 1
    /\ selenium_calls' = 0
    /\ \E p \in Pages, n \in 0..MaxLinks :
          /\ (n > 0) <=> (p = "links")
          /\ page' = p
          /\ shortcut_worked' = (p # "failed")
          /\ IF NeedsSelenium(p # "failed")
                THEN doe_pc' = "selenium" /\ links' = 0 /\ link_idx' = 0
                ELSE AfterDiscovery(n)
    /\ UNCHANGED <<file, doe_attempt, gets, doe_waits, prompts, doe_invalid,
                   doe_status, doe_downloaded, doe_skipped, doe_failed>>
    /\ UNCHANGED notDoe

\* links = extract_pdf_links_selenium(year, date_str): any number of links,
\* none when the browser failed
DoeSelenium ==
    /\ doe_pc = "selenium"
    /\ selenium_calls' = selenium_calls + 1
    /\ \E n \in 0..MaxLinks : AfterDiscovery(n)
    /\ UNCHANGED <<date_idx, shortcut_worked, page, file, doe_attempt, gets,
                   doe_waits, prompts, doe_invalid, doe_status,
                   doe_downloaded, doe_skipped, doe_failed>>
    /\ UNCHANGED notDoe

\* the loop over the dates is over: the summary is printed
DoeFinish ==
    /\ doe_pc = "date"
    /\ date_idx = NumDates
    /\ doe_pc' = "done"
    /\ UNCHANGED <<date_idx, shortcut_worked, page, selenium_calls, links,
                   link_idx, file, doe_attempt, gets, doe_waits, prompts,
                   doe_invalid, doe_status, doe_downloaded, doe_skipped,
                   doe_failed>>
    /\ UNCHANGED notDoe

\* for filename, url in links: download_file(url, filepath) is entered; the
\* file at filepath exists or not.
DoeDownloadFile ==
    /\ doe_pc = "link"
    /\ link_idx' = link_idx + 1
    /\ file' \in {"absent", "present"}
    /\ doe_attempt' = 0
    /\ gets' = 0
    /\ doe_waits' = <<>>
    /\ prompts' = 0
    /\ doe_invalid' = 0
    /\ doe_status' = "none"
    /\ doe_pc' = "get"
    /\ UNCHANGED <<date_idx, shortcut_worked, page, selenium_calls, links,
                   doe_downloaded, doe_skipped, doe_failed>>
    /\ UNCHANGED notDoe

\* download_file returns st; main counts it and takes the next link, or the
\* next date.
Return(st) ==
    /\ doe_status' = st
    /\ doe_downloaded' = doe_downloaded + (IF st = "downloaded" THEN 1 ELSE 0)
    /\ doe_skipped' = doe_skipped + (IF st = "skipped" THEN 1 ELSE 0)
    /\ doe_failed' = doe_failed + (IF st = "failed" THEN 1 ELSE 0)
    /\ doe_pc' = IF link_idx < links THEN "link" ELSE "date"
    /\ UNCHANGED doe_attempt

\* except: if attempt < max_retries - 1 the loop takes the next attempt at
\* once, else return (False, 'failed')
Retry ==
    IF doe_attempt < max_retries - 1
      THEN /\ doe_attempt' = doe_attempt + 1
           /\ doe_pc' = "get"
           /\ UNCHANGED <<doe_status, doe_downloaded, doe_skipped, doe_failed>>
      ELSE Return("failed")

\* response = requests.get(url, ...); response.raise_for_status(); then, when
\* the request went through, os.path.exists(filepath): the prompt of
\* should_overwrite_file, or open(filepath, 'wb')
DoeGet ==
    /\ doe_pc = "get"
    /\ gets' = gets + 1
    /\ \E ok \in BOOLEAN :
          IF ~ok
            THEN Retry /\ UNCHANGED <<file, prompts>>
            ELSE IF file # "absent"
              THEN /\ doe_pc' = "prompt"
                   /\ prompts' = prompts + 1
                   /\ UNCHANGED <<file, doe_attempt, doe_status,
                                  doe_downloaded, doe_skipped, doe_failed>>
              ELSE /\ doe_pc' = "body"
                   /\ file' = "created"
                   /\ UNCHANGED <<prompts, doe_attempt, doe_status,
                                  doe_downloaded, doe_skipped, doe_failed>>
    /\ doe_invalid' = 0
    /\ UNCHANGED <<date_idx, shortcut_worked, page, selenium_calls, links,
                   link_idx, doe_waits>>
    /\ UNCHANGED notDoe

\* should_overwrite_file: 's' or 'skip' returns False and download_file
\* returns (True, 'skipped'); 'o' or 'overwrite' returns True and the file is
\* opened with 'wb'
DoeAnswer ==
    /\ doe_pc = "prompt"
    /\ \E c \in {"s", "o"} :
          IF c = "s"
            THEN Return("skipped")
            ELSE /\ doe_pc' = "body"
                 /\ UNCHANGED <<doe_attempt, doe_status, doe_downloaded,
                                doe_skipped, doe_failed>>
    /\ UNCHANGED <<date_idx, shortcut_worked, page, selenium_calls, links,
                   link_idx, file, gets, doe_waits, prompts, doe_invalid>>
    /\ UNCHANGED notDoe

\* should_overwrite_file: any other answer prints the hint and asks again
DoeInvalidAnswer ==
    /\ doe_pc = "prompt"
    /\ doe_invalid < MaxInvalid
    /\ doe_invalid' = doe_invalid + 1
    /\ UNCHANGED <<doe_pc, date_idx, shortcut_worked, page, selenium_calls,
                   links, link_idx, file, doe_attempt, gets, doe_waits,
                   prompts, doe_status, doe_downloaded, doe_skipped,
                   doe_failed>>
    /\ UNCHANGED notDoe

\* for chunk in response.iter_content(...): f.write(chunk); the body arrives
\* whole and download_file returns (True, 'downloaded'), or the connection
\* breaks and the except branch runs
DoeBody ==
    /\ doe_pc = "body"
    /\ \E ok \in BOOLEAN :
          IF ok THEN Return("downloaded") ELSE Retry
    /\ UNCHANGED <<date_idx, shortcut_worked, page, selenium_calls, links,
                   link_idx, file, gets, doe_waits, prompts, doe_invalid>>
    /\ UNCHANGED notDoe

\* The TSE downloader is not running.
TseIdle ==
    /\ pc = "idle"
    /\ year_idx = 0
    /\ res_idx = 0
    /\ resources = 0
    /\ disk = Absent
    /\ transport = "any"
    /\ global_skip_all = FALSE
    /\ global_overwrite_all = FALSE
    /\ action = "none"
    /\ asked = FALSE
    /\ choice = "none"
    /\ invalid = 0
    /\ attempt = 0
    /\ waits = <<>>
    /\ results = <<>>
    /\ last = NoCall
    /\ error_msg = "None"
    /\ outcome = "none"
    /\ total_downloaded = 0
    /\ total_skipped = 0
    /\ total_failed = 0
    /\ failed_downloads = <<>>
    /\ history = <<>>
    /\ discovered = 0
    /\ fetch_ok = TRUE

InitDoe ==
    /\ ExtIdle
    /\ TseIdle
    /\ ResIdle
    /\ doe_pc = "date"
    /\ date_idx = 0
    /\ shortcut_worked = FALSE
    /\ page = "none"
    /\ selenium_calls = 0
    /\ links = 0
    /\ link_idx = 0
    /\ file = "unknown"
    /\ doe_attempt = 0
    /\ gets = 0
    /\ doe_waits = <<>>
    /\ prompts = 0
    /\ doe_invalid = 0
    /\ doe_status = "none"
    /\ doe_downloaded = 0
    /\ doe_skipped = 0
    /\ doe_failed = 0

NextDoe ==
    \/ DoeShortcut
    \/ DoeSelenium
    \/ DoeFinish
    \/ DoeDownloadFile
    \/ DoeGet
    \/ DoeAnswer
    \/ DoeInvalidAnswer
    \/ DoeBody

SpecDoe == InitDoe /\ [][NextDoe]_vars

NextResolve == Resolve

\* Only the filename resolution runs.
InitResolveOnly == TseIdle /\ DoeIdle /\ ExtIdle /\ InitResolve

SpecResolve == InitResolveOnly /\ [][NextResolve]_vars

\* Only the link extraction runs.
InitExtractOnly == TseIdle /\ DoeIdle /\ ResIdle /\ InitExtract

SpecExtract == InitExtractOnly /\ [][NextExtract]_vars

\* ============================================================ properties
Fresh == ~global_skip_all /\ ~global_overwrite_all
SkipAll == global_skip_all /\ ~global_overwrite_all
OverwriteAll == ~global_skip_all /\ global_overwrite_all

\* A step in which handle_existing_file is called (main is at the top of the
\* resource loop), and a step in which input() is called.
CallStep == pc = "resource"
PromptStep == pc' = "input" /\ (pc # "input" \/ invalid' # invalid)
AnswerStep == pc = "input" /\ pc' # "input"

\* C1 (as stated): once skip-all is set, every later call of
\* handle_existing_file returns 'skip' without prompting, whether or not the
\* file exists.
C1_SkipAllAlwaysSkips ==
    [][(CallStep /\ global_skip_all) => (action' = "skip" /\ ~PromptStep)]_vars

\* C1 (amended): once skip-all is set, every later call of
\* handle_existing_file returns without prompting and leaves skip-all set; it
\* returns 'skip' when the file exists and 'overwrite' when it is absent.
C1_SkipAllSkipsExisting ==
    [][(CallStep /\ global_skip_all) =>
          /\ ~PromptStep
          /\ SkipAll'
          /\ action' = (IF Exists(disk') THEN "skip" ELSE "overwrite")
          /\ Exists(disk') => (outcome' = "skipped" /\ total_skipped' = total_skipped + 1)
          /\ ~Exists(disk') => pc' = "download"]_vars

\* a call made in the skip-all state for an absent file has returned 'overwrite'
C1_Witness ==
    global_skip_all /\ action = "overwrite" /\ pc = "download" /\ ~Exists(disk)

\* C2: once a blanket flag is set, no step of the run calls input().
C2_NoPromptAfterBlanket ==
    [][(global_skip_all \/ global_overwrite_all) => ~PromptStep]_vars

\* on a later page, an existing file was decided in the overwrite-all state
\* without a prompt
C2_Witness ==
    /\ global_overwrite_all /\ ~asked /\ Exists(disk) /\ last = NoCall
    /\ pc = "download" /\ action = "overwrite" /\ year_idx = NumYears

\* C3: the policy state starts Fresh; a blanket state, once entered, is
\* never left: it neither returns to Fresh nor becomes the other blanket
\* state.
C3_AtMostOneTransition ==
    /\ Fresh
    /\ [][/\ SkipAll => SkipAll'
          /\ OverwriteAll => OverwriteAll'
          /\ ~Fresh => ~Fresh']_vars

\* a call made in the skip-all state has returned and the state is still
\* skip-all
C3_Witness ==
    SkipAll /\ ~asked /\ action = "skip" /\ outcome = "skipped" /\ pc = "done"

\* C4: global_skip_all and global_overwrite_all are never both True.
C4_MutuallyExclusive == ~(global_skip_all /\ global_overwrite_all)

\* the answer 'oa' has set overwrite-all, and skip-all is not set
C4_Witness ==
    choice = "oa" /\ global_overwrite_all /\ ~global_skip_all /\ pc = "download"

\* C5: a call in the Fresh state leaves the state Fresh when the file is
\* absent (and then returns 'overwrite' without a prompt) and when the answer
\* is 's' or 'o'; the state leaves Fresh only on the answers 'sa' and 'oa'.
C5_FreshFrame ==
    [][/\ (CallStep /\ Fresh) => Fresh'
       /\ (CallStep /\ Fresh /\ ~Exists(disk')) =>
              (action' = "overwrite" /\ ~PromptStep /\ pc' = "download")
       /\ (AnswerStep /\ Fresh /\ choice' \in {"s", "o"}) => Fresh'
       /\ (Fresh /\ ~Fresh') => (AnswerStep /\ choice' \in {"sa", "oa"})]_vars

\* the answer 's' was given in the Fresh state and the state is still Fresh
C5_Witness ==
    Fresh /\ asked /\ choice = "s" /\ action = "skip" /\ outcome = "skipped"

\* ------------------------------------------------ download_file (driver)
Calls == 1..Len(history)
AllSucceeded(i) == \A j \in 1..i : history[j].success

\* C6: with a server that honours ranges and a partial file of K < N chunks,
\* a successful call sends one request, with the range starting at K, appends
\* N - K chunks and leaves a file of N chunks.
C6_ResumeCorrect ==
    \A i \in Calls :
        LET c == history[i]
        IN  (/\ transport = "honours"
             /\ Exists(c.before) /\ c.before < RemoteSize
             /\ c.success)
            => /\ c.requests = <<c.before>>
               /\ c.mode = "ab"
               /\ c.written = RemoteSize - c.before
               /\ c.size = RemoteSize
               /\ (i = Len(history) => disk = RemoteSize)

\* a partial file of at least one chunk was completed
C6_Witness ==
    /\ transport = "honours" /\ Len(history) = 1
    /\ history[1].before > 0 /\ history[1].before < RemoteSize
    /\ history[1].success /\ disk = RemoteSize

\* C7 (as stated): starting from the complete file of N chunks, with any
\* server, the file has N chunks after the first successful call and after
\* the second.
C7_Idempotent ==
    \A i \in Calls :
        (i <= 2 /\ history[1].before = RemoteSize /\ AllSucceeded(i))
        => history[i].size = RemoteSize

\* C8: with a server that rejects every ranged request with 416, a call on
\* an existing file succeeds unless something else goes wrong, and a
\* successful call has sent the ranged request and then one without Range,
\* has truncated the file and has written all N chunks.
C8_RangeRejected ==
    \A i \in Calls :
        LET c == history[i]
        IN  (transport = "rejects" /\ Exists(c.before))
            => /\ c.fault = "none" => c.success
               /\ c.success =>
                     /\ c.requests = <<c.before, NoRange>>
                     /\ c.mode = "wb"
                     /\ c.written = RemoteSize
                     /\ c.size = RemoteSize

\* a partial file was rejected for resumption and downloaded afresh
C8_Witness ==
    /\ transport = "rejects" /\ Len(history) = 1
    /\ history[1].before = 1 /\ history[1].fault = "none"
    /\ history[1].success /\ history[1].requests = <<1, NoRange>>
    /\ disk = RemoteSize

\* ------------------------------------------------------------ retry loop
AllFailed == results # <<>> /\ \A i \in 1..Len(results) : ~results[i]
Increasing(seq) == \A i \in 1..(Len(seq) - 1) : seq[i] < seq[i + 1]

\* C9: a resource whose attempts all fail is attempted exactly max_retries
\* times, with waits 4 and then 8 before the retries, and ends as failed.
C9_RetryCap ==
    /\ (pc = "download" /\ AllFailed) =>
           (Len(results) < max_retries /\ attempt = Len(results) + 1)
    /\ (pc # "download" /\ AllFailed) =>
           /\ Len(results) = max_retries
           /\ waits = <<4, 8>>
           /\ Increasing(waits)
           /\ outcome = "failed"
           /\ ~last.success

\* a resource has failed three times
C9_Witness ==
    pc # "download" /\ AllFailed /\ outcome = "failed" /\ Len(waits) = 2

\* C10: a failed attempt that has opened the target and written B chunks
\* leaves the file on disk, with B chunks after the ones it had when it was
\* opened (none, for a file created or truncated), and the next attempt for
\* the resource sends a Range that starts at the length of that file.
RetryStep == pc = "download"
C10_PartialKept ==
    [][/\ (RetryStep /\ ~last'.success /\ last'.mode = "wb") =>
              (disk' = last'.written /\ Exists(disk'))
       /\ (RetryStep /\ ~last'.success /\ last'.mode = "ab") =>
              (disk' = disk + last'.written /\ Exists(disk'))
       /\ (RetryStep /\ ~last'.success /\ last'.mode = "none") =>
              disk' = disk
       /\ (RetryStep /\ ~last.success /\ last.mode # "none") =>
              /\ disk = last.size
              /\ last'.before = last.size
              /\ last'.requests[1] = last.size]_vars

\* the file was absent when handle_existing_file looked, the first attempt
\* failed after one chunk and the second attempt asked for the rest
C10_Witness ==
    /\ Fresh /\ ~asked /\ action = "overwrite"
    /\ Len(results) = 2 /\ ~results[1]
    /\ last.before = 1 /\ last.requests[1] = 1 /\ waits = <<4>>

\* ------------------------------------------------------ outcomes of main
\* no download_file call has been made for the current resource
NoRequestYet == results = <<>> /\ last = NoCall /\ last.requests = <<>>

\* a step in which handle_existing_file returns its action to main
DecisionStep == (CallStep /\ pc' # "input") \/ AnswerStep

\* a step that ends the processing of a resource
CompletionStep ==
    pc \in {"resource", "input", "download"} /\ pc' \in {"resource", "year"}

\* C11: a resource whose decision is 'skip' is counted as skipped and main
\* moves on without a download_file call; as long as it is the resource
\* processed last, no request has been sent for it.
C11_SkipNoRequest ==
    /\ [](outcome = "skipped" => (action = "skip" /\ NoRequestYet))
    /\ [][(DecisionStep /\ action' = "skip") =>
              /\ total_skipped' = total_skipped + 1
              /\ total_downloaded' = total_downloaded
              /\ total_failed' = total_failed
              /\ outcome' = "skipped"
              /\ NoRequestYet'
              /\ CompletionStep]_vars

\* the run ended on a skipped resource, after a downloaded one
C11_Witness ==
    /\ pc = "done" /\ outcome = "skipped" /\ NoRequestYet
    /\ total_skipped = 1 /\ total_downloaded = 1

\* C13: the run reaches its end; there every selected page has been
\* visited, in order, and every resource discovered has been counted once,
\* whatever discovery or download failed on the way.
C13_RunContinues ==
    /\ <>(pc = "done")
    /\ [](pc = "done" => (year_idx = NumYears /\ Processed = discovered))
    /\ [](pc \in {"year", "done"} => res_idx = resources)
    /\ [][/\ year_idx' # year_idx => (pc = "year" /\ year_idx' = year_idx + 1)
          /\ Processed' = (IF CompletionStep THEN Processed + 1 ELSE Processed)
          /\ (pc = "year" /\ year_idx' # year_idx /\ ~fetch_ok') => pc' = "year"
          /\ (CompletionStep /\ outcome' = "failed") =>
                 pc' = (IF res_idx < resources THEN "resource" ELSE "year")]_vars

\* the run ended after a failed resource that was followed by a downloaded
\* one, and after a last page that could not be fetched
C13_Witness ==
    /\ pc = "done" /\ ~fetch_ok
    /\ total_failed = 1 /\ total_downloaded = 1 /\ outcome = "downloaded"

\* The call of download_file that returned last met a transport that raised
\* on every request: no answer ever reached the existence check.
AllRaised == doe_status = "failed" /\ prompts = 0 /\ file # "created"

\* C12: when download_file returns 'skipped', no GET has been issued for the
\* URL during the call.
C12_SkipNoRequest == doe_status = "skipped" => gets = 0

\* C14: the final name of a resolved link is not empty and is not an action
\* word, with or without .pdf.
C14_NoGenericName ==
    res_pc = "resolved" =>
        /\ Truthy(safe_filename)
        /\ safe_filename.stem \notin {"visualizar", "baixar", "download", "ver"}

\* C15: every record returned for an item has an absolute URL.
C15_AbsoluteUrl ==
    \A i \in 1..Len(extracted) : StartsWithHttp(extracted[i].url)

\* C16: an item with an anchor whose href ends in an extension of the
\* allow-list gives a record, whose filename ends in such an extension.
C16_RecordForEveryFile ==
    (/\ ext_pc = "extracted"
     /\ \/ EndsWithExt(res_item.ir)
        \/ \E i \in 1..Len(res_item.anchors) : EndsWithExt(res_item.anchors[i]))
    => /\ Len(extracted) = 1
       /\ extracted[1].name.ext = "zip"

\* C17: for each date the Selenium fallback is invoked exactly when the
\* shortcut fetch reported failure: once then, and never when the page
\* loaded, with links, without links or with the no-publications phrase.
C17_FallbackOnlyOnFailure ==
    /\ page \in {"links", "empty", "marker"} => shortcut_worked
    /\ page = "failed" => ~shortcut_worked
    /\ shortcut_worked => (selenium_calls = 0 /\ doe_pc # "selenium")
    /\ doe_pc = "selenium" => selenium_calls = 0
    /\ (page = "failed" /\ doe_pc # "selenium") => selenium_calls = 1

\* the second date's page failed to load and the fallback, called once, found
\* links; a file of the first date was skipped
C17_Witness ==
    /\ page = "failed" /\ selenium_calls = 1 /\ doe_pc = "link"
    /\ date_idx = 2 /\ doe_skipped = 1

\* C19: against a transport that raises on every request download_file
\* issues max_retries GETs, sleeps between consecutive attempts for
\* exponentially growing times and returns 'failed'.
C19_RetryBackoff ==
    AllRaised =>
        /\ gets = max_retries
        /\ Len(doe_waits) = max_retries - 1
        /\ \A i \in 1..Len(doe_waits) : doe_waits[i] = 2 ^ i

\* C18: failed_downloads grows by one record exactly when a resource ends
\* after max_retries failed attempts, the record names that resource and
\* carries the error of the last attempt; a resource that is downloaded or
\* skipped adds nothing; the list is as long as total_failed and names no
\* resource twice.
C18_FailureRecords ==
    /\ [](/\ Len(failed_downloads) = total_failed
          /\ \A i, j \in 1..Len(failed_downloads) :
                 (/\ failed_downloads[i].year = failed_downloads[j].year
                  /\ failed_downloads[i].filename = failed_downloads[j].filename)
                 => i = j)
    /\ [][/\ (CompletionStep /\ outcome' = "failed") =>
                /\ Len(results') = max_retries
                /\ \A i \in 1..Len(results') : ~results'[i]
                /\ failed_downloads' =
                       Append(failed_downloads,
                              [year |-> year_idx, filename |-> res_idx,
                               error |-> last'.error])
                /\ last'.error # "None"
          /\ ~(CompletionStep /\ outcome' = "failed") =>
                failed_downloads' = failed_downloads
          /\ (CompletionStep /\ Len(results') = max_retries
                             /\ \A i \in 1..Len(results') : ~results'[i]) =>
                outcome' = "failed"]_vars

\* the run ended with one record, of a resource whose last attempt broke
\* in the middle of the body after other errors
C18_Witness ==
    /\ pc = "done" /\ total_failed = 1 /\ total_downloaded = 1
    /\ Len(failed_downloads) = 1
    /\ failed_downloads[1].error = "ChunkedEncodingError"

\* C20: download_file is called between 1 and max_retries times for a
\* resource that is not skipped, attempt stays in 1..max_retries, and a
\* successful attempt is the last one of its resource.
C20_AttemptBound ==
    /\ Len(results) <= max_retries
    /\ pc = "download" => (attempt \in 1..max_retries /\ attempt = Len(results) + 1)
    /\ outcome \in {"downloaded", "failed"} =>
           (Len(results) \in 1..max_retries /\ attempt = Len(results))
    /\ \A i \in 1..Len(results) : results[i] => i = Len(results)
    /\ (results # <<>> /\ results[Len(results)]) =>
           (pc # "download" /\ outcome = "downloaded")

\* a resource was downloaded at its third attempt
C20_Witness ==
    outcome = "downloaded" /\ results = <<FALSE, FALSE, TRUE>> /\ attempt = 3

\* The answer of the server to the last request of a call that opened the
\* target.
Answered(c) == Respond(transport, c.requests[Len(c.requests)])

\* C22: a call appends to the target only when the server answered the
\* ranged request with 206; after a 200 answer with the full body the
\* target is written from offset 0 and a successful call leaves N chunks.
C22_AppendOnlyOnPartial ==
    \A i \in Calls :
        LET c == history[i]
        IN  c.mode # "none" =>
              /\ c.mode = "ab" => Answered(c).status = 206
              /\ Answered(c).status = 200 =>
                    /\ c.mode = "wb"
                    /\ c.size = c.written
                    /\ c.success => c.size = RemoteSize

\* C23: in one download_file call the skip/overwrite prompt is issued at
\* most once, and only for a file that was there before the call; a file
\* that an earlier attempt of the call created gives no prompt and no
\* 'skipped'.
C23_SinglePrompt ==
    /\ prompts <= 1
    /\ prompts > 0 => file = "present"
    /\ doe_status = "skipped" => file = "present"

\* Resources whose processing has ended: the ones discovered, less the ones
\* of the current page that main has not reached and the one in hand.
Finished ==
    discovered - (resources - res_idx)
    - (IF pc \in {"input", "download"} THEN 1 ELSE 0)

\* C24: the three counters add up to the number of resources processed so
\* far, and the step that ends a resource adds one to exactly one of them,
\* the one of its outcome; no other step changes a counter.
C24_OutcomeAccounting ==
    /\ [](Processed = Finished)
    /\ [][LET d == <<total_downloaded' - total_downloaded,
                    total_skipped' - total_skipped,
                    total_failed' - total_failed>>
          IN  IF CompletionStep
                THEN d = CASE outcome' = "downloaded" -> <<1, 0, 0>>
                           [] outcome' = "skipped" -> <<0, 1, 0>>
                           [] outcome' = "failed" -> <<0, 0, 1>>
                           [] OTHER -> <<>>
                ELSE d = <<0, 0, 0>>]_vars

\* two resources were processed: one skipped, one failed
C24_Witness ==
    /\ pc = "done" /\ discovered = 2
    /\ total_skipped = 1 /\ total_failed = 1 /\ total_downloaded = 0

\* The names the five tiers propose for a link, in the order URL query
\* parameter, URL path, sibling cell, Content-Disposition, anchor text or
\* 'documento.pdf'.
TierNames(l) ==
    <<IF l.url.param.pdf THEN Unquote(l.url.param) ELSE Nothing,
      IF l.url.base.pdf THEN Unquote(l.url.base) ELSE Nothing,
      IF \E i \in 1..Len(l.cells) : UsableCell(l.cells[i])
        THEN EnsurePdf(l.cells[CHOOSE i \in 1..Len(l.cells) :
                                  /\ UsableCell(l.cells[i])
                                  /\ \A j \in 1..(i - 1) : ~UsableCell(l.cells[j])])
        ELSE Nothing,
      Unquote(l.cd),
      IF Truthy(l.link_text) /\ ~IsActionWord(l.link_text)
        THEN l.link_text ELSE Name("documento", TRUE)>>

\* The first tier whose name is not empty and not generic; the last one when
\* there is none.
FirstUsableTier(l) ==
    IF \E i \in 1..4 : ~Unusable(TierNames(l)[i])
      THEN CHOOSE i \in 1..4 :
              /\ ~Unusable(TierNames(l)[i])
              /\ \A j \in 1..(i - 1) : Unusable(TierNames(l)[j])
      ELSE 5

\* C21: the name kept for a link is the one of the first tier, in the order
\* query parameter, path, sibling cell, Content-Disposition, anchor text,
\* that gives a usable name, and the HEAD request is sent only when the
\* first three tiers gave none.
C21_FirstTierWins ==
    res_pc = "resolved" =>
        /\ filename = Unquote(EnsurePdf(TierNames(link)[FirstUsableTier(link)]))
        /\ probed => FirstUsableTier(link) >= 4

TypeOK ==
    /\ pc \in {"year", "resource", "input", "download", "done", "driver", "idle"}
    /\ year_idx \in 0..NumYears
    /\ res_idx \in 0..MaxTotal
    /\ disk \in Absent..(RemoteSize + 1 + MaxCalls * RemoteSize + max_retries * RemoteSize)
    /\ total_downloaded + total_skipped + total_failed <= MaxTotal
    /\ discovered \in 0..MaxTotal
    /\ fetch_ok \in BOOLEAN
    /\ doe_pc \in {"idle", "date", "selenium", "link", "get", "prompt", "body", "done"}
    /\ date_idx \in 0..NumDates
    /\ page \in Pages \cup {"none"}
    /\ links \in 0..MaxLinks
    /\ link_idx \in 0..links
    /\ file \in {"unknown", "absent", "present", "created"}
    /\ doe_attempt \in 0..(max_retries - 1)
    /\ gets \in 0..max_retries
    /\ doe_status \in {"none", "downloaded", "skipped", "failed"}
    /\ res_pc \in {"idle", "link", "resolved"}
    /\ link \in Links \cup {NoLink}
    /\ ext_pc \in {"idle", "item", "extracted"}
    /\ Len(extracted) <= 1
====
